---- MODULE Spec2Model ----
(***************************************************************************)
(* A model of scrape_sales.py: the estate-sale scraper's pipeline          *)
(* (fetch, extract, bucket by weekend, format, notify).  Every part of the *)
(* pipeline is a sequential function; each is modelled as a small state    *)
(* machine over its local variables, with its inputs drawn in Init or,     *)
(* for the texts a function reads one by one, as it reads them.            *)
(*                                                                         *)
(* Text is a sequence of one-character strings.  A date is a record        *)
(* [mlen, mon, day, wd]: the length of the current month, the month        *)
(* (0 = the current one, 1 = the following one), the day of the month      *)
(* and the weekday (Monday = 0).                                           *)
(***************************************************************************)
EXTENDS Integers, Sequences, FiniteSets, TLC

VARIABLES
    \* organize_sales_by_weekend_fixed
    now, sales, days_to_thursday, this_thursday, next_thursday,
    this_weekend_days, next_weekend_days,
    this_weekend, next_weekend, other_sales, bpc,
    \* extract_sales_info_improved, extract_from_html_text
    sale_links, url_matches, sales_from_text, processed_urls, found_sales,
    link_idx, failing_links, returned_sales, epc,
    \* find_sale_container
    ancestors, container, hops, cpc,
    \* extract_sale_title_improved and the titles of extract_from_html_text
    tag_idx, title_source, title_raw, title, tpc,
    \* create_email_content_improved
    organized_sales, content, fpc,
    \* scrape_estate_sales, send_email, send_error_email
    environ, faults, raised_in, exc, notifier_calls, smtp_connects, rpc

bucketVars == <<now, sales, days_to_thursday, this_thursday, next_thursday,
                this_weekend_days, next_weekend_days,
                this_weekend, next_weekend, other_sales, bpc>>

extractVars == <<sale_links, url_matches, sales_from_text, processed_urls,
                 found_sales, link_idx, failing_links, returned_sales, epc>>

containerVars == <<ancestors, container, hops, cpc>>

titleVars == <<tag_idx, title_source, title_raw, title, tpc>>

formatVars == <<organized_sales, content, fpc>>

runVars == <<environ, faults, raised_in, exc, notifier_calls, smtp_connects, rpc>>

vars == <<bucketVars, extractVars, containerVars, titleVars, formatVars, runVars>>

notBucketVars == <<extractVars, containerVars, titleVars, formatVars, runVars>>
notExtractVars == <<bucketVars, containerVars, titleVars, formatVars, runVars>>
notContainerVars == <<bucketVars, extractVars, titleVars, formatVars, runVars>>
notTitleVars == <<bucketVars, extractVars, containerVars, formatVars, runVars>>
notFormatVars == <<bucketVars, extractVars, containerVars, titleVars, runVars>>
notRunVars == <<bucketVars, extractVars, containerVars, titleVars, formatVars>>

\* Each function of the script is checked on its own: while one runs, the
\* variables of the others rest at these values.
BucketIdle ==
    /\ now = [mlen |-> 0, mon |-> 0, day |-> 0, wd |-> 0]
    /\ sales = <<>>
    /\ days_to_thursday = 0
    /\ this_thursday = now
    /\ next_thursday = now
    /\ this_weekend_days = <<>>
    /\ next_weekend_days = <<>>
    /\ this_weekend = <<>>
    /\ next_weekend = <<>>
    /\ other_sales = <<>>
    /\ bpc = "idle"

ExtractIdle ==
    /\ sale_links = <<>>
    /\ url_matches = <<>>
    /\ sales_from_text = <<>>
    /\ processed_urls = {}
    /\ found_sales = <<>>
    /\ link_idx = 0
    /\ failing_links = {}
    /\ returned_sales = <<>>
    /\ epc = "idle"

ContainerIdle ==
    /\ ancestors = <<>>
    /\ container = 0
    /\ hops = 0
    /\ cpc = "idle"

TitleIdle ==
    /\ tag_idx = 0
    /\ title_source = "none"
    /\ title_raw = [len |-> 0, kind |-> "none", squeeze |-> 0]
    /\ title = [len |-> 0, kind |-> "none", squeeze |-> 0]
    /\ tpc = "idle"

FormatIdle ==
    /\ organized_sales = [this_weekend |-> <<>>, next_weekend |-> <<>>, other |-> <<>>]
    /\ content = <<>>
    /\ fpc = "idle"

RunIdle ==
    /\ environ = [GMAIL_USER |-> "unset", GMAIL_APP_PASSWORD |-> "unset",
                  RECIPIENT_EMAIL |-> "unset"]
    /\ faults = {}
    /\ raised_in = "none"
    /\ exc = "none"
    /\ notifier_calls = <<>>
    /\ smtp_connects = 0
    /\ rpc = "idle"

(***************************************************************************)
(* Bounds of the model.                                                    *)
(***************************************************************************)
MaxSales == 2
MaxDatesLen == 3
MaxLinks == 32
MaxUrls == 11
MaxFailing == 2
MaxDepth == 6
MaxTextLen == 160
MaxIdLen == 140
MaxThisWeekend == 2
MaxNextWeekend == 2
MaxOther == 16

(***************************************************************************)
(* Helpers on sequences.                                                   *)
(***************************************************************************)
Range(s) == {s[i] : i \in 1..Len(s)}

SeqsUpTo(S, n) == UNION {[1..k -> S] : k \in 0..n}

Take(s, n) == SubSeq(s, 1, IF n < Len(s) THEN n ELSE Len(s))

(***************************************************************************)
(* extract_sales_info_improved(soup) and extract_from_html_text(soup).     *)
(*                                                                         *)
(* The page is what the two searches find in it: sale_links, the hrefs of  *)
(* the matching <a> elements in document order, and url_matches, the       *)
(* matches of the path pattern in the page's text.  An href and a matched  *)
(* path are the number of the sale they name.  failing_links are the hrefs *)
(* whose container makes one of the field extractors raise.                *)
(***************************************************************************)
LinkLimit == 30
TextLimit == 10
FewSales == 10
ReturnLimit == 25

Min(a, b) == IF a < b THEN a ELSE b

\* f"https://www.estatesales.net{sale_url}"
Link(sale_url) == <<"https://www.estatesales.net", sale_url>>

\* Lines 86-95: the sale of a link; its fields come from the container.
LinkSale(sale_url) ==
    [title |-> <<"title of", sale_url>>,
     address |-> "address",
     dates |-> "dates",
     link |-> Link(sale_url)]

\* Lines 232-240: the sale of a path found in the text.
TextSale(match) ==
    [title |-> <<"Estate Sale #", match>>,
     address |-> "Austin, TX (see website)",
     dates |-> "Check website for dates",
     link |-> Link(match)]

\* Lines 229-242.
ExtractFromHtmlText(matches) ==
    [j \in 1..Min(TextLimit, Len(matches)) |-> TextSale(matches[j])]

\* A slip: the set of seen urls is never consulted.
AlreadyProcessed_Never(sale_url, urls) == FALSE

\* Line 79.
AlreadyProcessed(sale_url, urls) == sale_url \in urls

\* A slip: the list is returned whole.
ReturnSlice_Whole(found) == found

\* Line 107.
ReturnSlice(found) == Take(found, ReturnLimit)

\* Hrefs 1, 2, ..., period, 1, 2, ...: distinct when period >= n.
Cycle(n, period) == [i \in 1..n |-> ((i - 1) % period) + 1]

InitExtract ==
    /\ \E n \in 0..MaxLinks, period \in {3, MaxLinks + 1} :
          sale_links = Cycle(n, period)
    /\ \E m \in 0..MaxUrls, period \in {2, MaxUrls + 1} :
          url_matches = Cycle(m, period)
    /\ failing_links \in SUBSET (1..MaxFailing)
    /\ sales_from_text = <<>>
    /\ processed_urls = {}
    /\ found_sales = <<>>
    /\ link_idx = 0
    /\ returned_sales = <<>>
    /\ epc = "text"
    /\ BucketIdle /\ ContainerIdle /\ TitleIdle /\ FormatIdle /\ RunIdle

\* Line 69.
ExtractText ==
    /\ epc = "text"
    /\ sales_from_text' = ExtractFromHtmlText(url_matches)
    /\ epc' = "links"
    /\ UNCHANGED <<sale_links, url_matches, processed_urls, found_sales,
                   link_idx, failing_links, returned_sales>>
    /\ UNCHANGED notExtractVars

MoreLinks == link_idx < Min(LinkLimit, Len(sale_links))

\* Lines 78-80: the href was seen before.
SkipDuplicate ==
    /\ epc = "links"
    /\ MoreLinks
    /\ AlreadyProcessed(sale_links[link_idx + 1], processed_urls)
    /\ link_idx' = link_idx + 1
    /\ UNCHANGED <<sale_links, url_matches, sales_from_text, processed_urls,
                   found_sales, failing_links, returned_sales, epc>>
    /\ UNCHANGED notExtractVars

\* Lines 81-101: a field extractor raises; the sale is dropped, its href
\* stays in the set.
LinkError ==
    /\ epc = "links"
    /\ MoreLinks
    /\ LET sale_url == sale_links[link_idx + 1]
       IN  /\ ~AlreadyProcessed(sale_url, processed_urls)
           /\ sale_url \in failing_links
           /\ processed_urls' = processed_urls \cup {sale_url}
    /\ link_idx' = link_idx + 1
    /\ UNCHANGED <<sale_links, url_matches, sales_from_text, found_sales,
                   failing_links, returned_sales, epc>>
    /\ UNCHANGED notExtractVars

\* Lines 81-97.
AppendSale ==
    /\ epc = "links"
    /\ MoreLinks
    /\ LET sale_url == sale_links[link_idx + 1]
       IN  /\ ~AlreadyProcessed(sale_url, processed_urls)
           /\ sale_url \notin failing_links
           /\ processed_urls' = processed_urls \cup {sale_url}
           /\ found_sales' = Append(found_sales, LinkSale(sale_url))
    /\ link_idx' = link_idx + 1
    /\ UNCHANGED <<sale_links, url_matches, sales_from_text, failing_links,
                   returned_sales, epc>>
    /\ UNCHANGED notExtractVars

\* Lines 104-105: fewer than 10 sales, the sales of the text are added.
AddFromText ==
    /\ epc = "links"
    /\ ~MoreLinks
    /\ Len(found_sales) < FewSales
    /\ found_sales' = found_sales \o Take(sales_from_text, TextLimit)
    /\ epc' = "return"
    /\ UNCHANGED <<sale_links, url_matches, sales_from_text, processed_urls,
                   link_idx, failing_links, returned_sales>>
    /\ UNCHANGED notExtractVars

\* Line 104: enough sales.
KeepLinkSales ==
    /\ epc = "links"
    /\ ~MoreLinks
    /\ Len(found_sales) >= FewSales
    /\ epc' = "return"
    /\ UNCHANGED <<sale_links, url_matches, sales_from_text, processed_urls,
                   found_sales, link_idx, failing_links, returned_sales>>
    /\ UNCHANGED notExtractVars

\* Line 107.
ReturnSales ==
    /\ epc = "return"
    /\ returned_sales' = ReturnSlice(found_sales)
    /\ epc' = "done"
    /\ UNCHANGED <<sale_links, url_matches, sales_from_text, processed_urls,
                   found_sales, link_idx, failing_links>>
    /\ UNCHANGED notExtractVars

ExtractNext ==
    \/ ExtractText \/ SkipDuplicate \/ LinkError \/ AppendSale
    \/ AddFromText \/ KeepLinkSales \/ ReturnSales

SpecExtract == InitExtract /\ [][ExtractNext]_vars

(***************************************************************************)
(* Properties of extract_sales_info_improved.                              *)
(***************************************************************************)
IsTextSale(sale) == sale.address = "Austin, TX (see website)"

LinkSalesOf(s) == {i \in 1..Len(s) : ~IsTextSale(s[i])}

\* C2 as stated: no two of the returned sales have the same link.
C2_AllLinksDistinct ==
    epc = "done" =>
        \A i, j \in 1..Len(returned_sales) :
            i < j => returned_sales[i].link # returned_sales[j].link

\* C2, amended: no two of the returned sales that were built from sale links
\* have the same link, and they come first, in the order of their links in
\* the page; a sale added from the text is returned only when fewer than 10
\* sales were built from links, and may repeat a link.
C2_LinkSalesDistinct ==
    epc = "done" =>
        /\ \A i, j \in LinkSalesOf(returned_sales) :
              i < j => returned_sales[i].link # returned_sales[j].link
        /\ \A i \in LinkSalesOf(returned_sales), j \in 1..Len(returned_sales) :
              IsTextSale(returned_sales[j]) => i < j
        /\ \A i \in LinkSalesOf(returned_sales) :
              \E k \in 1..Min(LinkLimit, Len(sale_links)) :
                  /\ returned_sales[i].link = Link(sale_links[k])
                  /\ \A h \in LinkSalesOf(returned_sales) :
                        h < i => \E g \in 1..(k - 1) :
                                    returned_sales[h].link = Link(sale_links[g])
        /\ Cardinality(LinkSalesOf(returned_sales)) >= FewSales
              => LinkSalesOf(returned_sales) = 1..Len(returned_sales)

\* A link occurs twice in the page and once among the returned sales built
\* from links, and a sale from the text repeats the link of another sale.
C2_Witness ==
    /\ epc = "done"
    /\ \E a, b \in 1..Len(sale_links) : a < b /\ sale_links[a] = sale_links[b]
    /\ \E i \in LinkSalesOf(returned_sales), j \in 1..Len(returned_sales) :
          /\ IsTextSale(returned_sales[j])
          /\ returned_sales[i].link = returned_sales[j].link

\* C3: never more than 25 sales are returned.
C3_AtMost25 ==
    epc = "done" => Len(returned_sales) <= 25

\* More than 25 sales were found, with a link that raised, and 25 returned.
C3_Witness ==
    /\ epc = "done"
    /\ Len(found_sales) > 25
    /\ Len(returned_sales) = 25
    /\ failing_links # {}

(***************************************************************************)
(* Text: characters, str.lower, the regular expression \b(\d{1,2})\b.      *)
(***************************************************************************)
Digits == {"0", "1", "2", "3", "4", "5", "6", "7", "8", "9"}
Letters == {"a", "A", "t", "h"}
Chars == {"1", "7", " ", "A"}

DigitVal(c) ==
    CASE c = "0" -> 0 [] c = "1" -> 1 [] c = "2" -> 2 [] c = "3" -> 3
      [] c = "4" -> 4 [] c = "5" -> 5 [] c = "6" -> 6 [] c = "7" -> 7
      [] c = "8" -> 8 [] c = "9" -> 9

LowerChar(c) == IF c = "A" THEN "a" ELSE c

Lower(text) == [i \in 1..Len(text) |-> LowerChar(text[i])]

\* \w of the regular expression: a digit, a letter or the underscore.
IsWordChar(c) == c \in Digits \cup Letters \cup {"_"}

IsWordAt(text, p) == p >= 1 /\ p <= Len(text) /\ IsWordChar(text[p])

IsDigitAt(text, p) == p >= 1 /\ p <= Len(text) /\ text[p] \in Digits

\* \b holds before position p when exactly one of the characters at p-1 and p
\* is a word character.
Boundary(text, p) == IsWordAt(text, p - 1) # IsWordAt(text, p)

\* int(x) of a matched group of one or two digits.
IntOf(text, p, n) ==
    IF n = 1 THEN DigitVal(text[p])
    ELSE 10 * DigitVal(text[p]) + DigitVal(text[p + 1])

\* A slip: the word boundary after the digits is not asked for.
MatchLenAt_NoEndBoundary(text, p) ==
    IF ~(Boundary(text, p) /\ IsDigitAt(text, p)) THEN 0
    ELSE IF IsDigitAt(text, p + 1) THEN 2
    ELSE 1

\* The length of the match of \b(\d{1,2})\b that starts at p, 0 when none:
\* the greedy two-digit match first, then one digit.
MatchLenAt(text, p) ==
    IF ~(Boundary(text, p) /\ IsDigitAt(text, p)) THEN 0
    ELSE IF IsDigitAt(text, p + 1) /\ Boundary(text, p + 2) THEN 2
    ELSE IF Boundary(text, p + 1) THEN 1
    ELSE 0

\* re.findall scans left to right and resumes after each match.
RECURSIVE FindAllFrom(_, _)
FindAllFrom(text, p) ==
    IF p > Len(text) THEN <<>>
    ELSE LET n == MatchLenAt(text, p)
         IN  IF n = 0 THEN FindAllFrom(text, p + 1)
             ELSE <<IntOf(text, p, n)>> \o FindAllFrom(text, p + n)

InDayRange(x) == 1 <= x /\ x <= 31

RECURSIVE FilterRange(_)
FilterRange(xs) ==
    IF xs = <<>> THEN <<>>
    ELSE (IF InDayRange(Head(xs)) THEN <<Head(xs)>> ELSE <<>>)
         \o FilterRange(Tail(xs))

\* day_numbers of a sale.
DayNumbers(dates) == FilterRange(FindAllFrom(Lower(dates), 1))

(***************************************************************************)
(* Dates: central_now and datetime + timedelta(days = k).                  *)
(***************************************************************************)
MonthLens == {28, 29, 30, 31}

\* Every day of a month of every length, on every weekday.
Dates == {d \in [mlen : MonthLens, mon : {0}, day : 1..31, wd : 0..6] :
             d.day <= d.mlen}


\* The days from the first day of the current month, to compare dates.
Ordinal(d) == d.mon * d.mlen + d.day

\* datetime + timedelta(days = k): the calendar date k days later.  The month
\* after the current one is never left: at most 16 days are added in all.
AddDays(d, k) ==
    LET t == d.day + k
    IN  IF d.mon = 0 /\ t > d.mlen
        THEN [d EXCEPT !.mon = 1, !.day = t - d.mlen, !.wd = (d.wd + k) % 7]
        ELSE [d EXCEPT !.day = t, !.wd = (d.wd + k) % 7]

\* A slip: the days from Friday to Sunday are counted to the past Thursday.
DaysToThursday_NoWrap(current_weekday) == 3 - current_weekday

\* Days until Thursday (weekday 3).
DaysToThursday(current_weekday) ==
    IF current_weekday <= 3 THEN 3 - current_weekday
    ELSE 7 - current_weekday + 3

\* A slip: the next weekend starts where this one ends.
NextThursday_Overlap(thursday) == AddDays(thursday, 3)

NextThursday(thursday) == AddDays(thursday, 7)

\* Thursday through Sunday: the days of the month of four consecutive dates.
WeekendDays(thursday) == [i \in 1..4 |-> AddDays(thursday, i - 1).day]

AnyIn(day_numbers, days) == \E i \in 1..Len(day_numbers) : day_numbers[i] \in Range(days)

\* The bucket of a sale, by its day numbers and the two lists of days.
BucketOf(day_numbers, this_days, next_days) ==
    LET is_this_weekend == AnyIn(day_numbers, this_days)
        is_next_weekend == AnyIn(day_numbers, next_days)
    IN  IF is_this_weekend /\ ~is_next_weekend THEN "this_weekend"
        ELSE IF is_next_weekend /\ ~is_this_weekend THEN "next_weekend"
        ELSE "other"

(***************************************************************************)
(* organize_sales_by_weekend_fixed(sales).                                 *)
(***************************************************************************)
\* Every dates string of up to MaxDatesLen characters.
DateStrings == SeqsUpTo(Chars, MaxDatesLen)

\* The dates strings of the longer lists of sales.
ShortDates == {<<>>, <<"1">>, <<"7">>, <<"1", "7">>, <<"7", "1">>,
               <<"1", " ", "7">>}

\* Lists of up to n sales: sale i carries link i.
SalesInputs(strings, n) ==
    {[i \in 1..Len(ds) |-> [link |-> i, dates |-> ds[i]]] :
        ds \in SeqsUpTo(strings, n)}

NoDate == [mlen |-> 0, mon |-> 0, day |-> 0, wd |-> 0]

InitBucket ==
    /\ now \in Dates
    /\ sales \in SalesInputs(DateStrings, 1) \cup SalesInputs(ShortDates, MaxSales)
    /\ days_to_thursday = 0
    /\ this_thursday = NoDate
    /\ next_thursday = NoDate
    /\ this_weekend_days = <<>>
    /\ next_weekend_days = <<>>
    /\ this_weekend = <<>>
    /\ next_weekend = <<>>
    /\ other_sales = <<>>
    /\ bpc = "weekday"
    /\ ExtractIdle /\ ContainerIdle /\ TitleIdle /\ FormatIdle /\ RunIdle

\* Lines 255-261: the offset to Thursday from the current weekday.
ComputeOffset ==
    /\ bpc = "weekday"
    /\ days_to_thursday' = DaysToThursday(now.wd)
    /\ bpc' = "windows"
    /\ UNCHANGED <<now, sales, this_thursday, next_thursday, this_weekend_days,
                   next_weekend_days, this_weekend, next_weekend, other_sales>>
    /\ UNCHANGED notBucketVars

\* Lines 263-276: the two Thursdays and the two lists of days.
ComputeWindows ==
    /\ bpc = "windows"
    /\ this_thursday' = AddDays(now, days_to_thursday)
    /\ next_thursday' = NextThursday(this_thursday')
    /\ this_weekend_days' = WeekendDays(this_thursday')
    /\ next_weekend_days' = WeekendDays(next_thursday')
    /\ bpc' = "loop"
    /\ UNCHANGED <<now, sales, days_to_thursday, this_weekend, next_weekend,
                   other_sales>>
    /\ UNCHANGED notBucketVars

Processed == Len(this_weekend) + Len(next_weekend) + Len(other_sales)

\* Lines 286-306: one pass of the loop over sales.
ProcessSale ==
    /\ bpc = "loop"
    /\ Processed < Len(sales)
    /\ LET sale == sales[Processed + 1]
           bucket == BucketOf(DayNumbers(sale.dates), this_weekend_days,
                              next_weekend_days)
       IN  /\ this_weekend' = IF bucket = "this_weekend"
                              THEN Append(this_weekend, sale) ELSE this_weekend
           /\ next_weekend' = IF bucket = "next_weekend"
                              THEN Append(next_weekend, sale) ELSE next_weekend
           /\ other_sales' = IF bucket = "other"
                             THEN Append(other_sales, sale) ELSE other_sales
    /\ UNCHANGED <<now, sales, days_to_thursday, this_thursday, next_thursday,
                   this_weekend_days, next_weekend_days, bpc>>
    /\ UNCHANGED notBucketVars

\* Lines 310-314: the loop is over, the three lists are returned.
ReturnBuckets ==
    /\ bpc = "loop"
    /\ Processed = Len(sales)
    /\ bpc' = "done"
    /\ UNCHANGED <<now, sales, days_to_thursday, this_thursday, next_thursday,
                   this_weekend_days, next_weekend_days, this_weekend,
                   next_weekend, other_sales>>
    /\ UNCHANGED notBucketVars

BucketNext == ComputeOffset \/ ComputeWindows \/ ProcessSale \/ ReturnBuckets

SpecBucket == InitBucket /\ [][BucketNext]_vars

(***************************************************************************)
(* Properties of organize_sales_by_weekend_fixed.                          *)
(***************************************************************************)
\* The standalone numbers of a text, stated by position: one or two digits
\* with no word character on either side, of a value in 1..31.
StandaloneDays(text) ==
    {IntOf(text, p, n) : <<p, n>> \in
        {q \in (1..Len(text)) \X {1, 2} :
            /\ q[1] + q[2] - 1 <= Len(text)
            /\ \A k \in q[1]..(q[1] + q[2] - 1) : text[k] \in Digits
            /\ ~IsWordAt(text, q[1] - 1)
            /\ ~IsWordAt(text, q[1] + q[2])
            /\ IntOf(text, q[1], q[2]) \in 1..31}}

Count(s, x) == Cardinality({i \in 1..Len(s) : s[i] = x})

\* s is a subsequence of the first n elements of t, in t's order.
IsOrderedPart(s, t) ==
    \A i, j \in 1..Len(s) :
        i < j => \E a, b \in 1..Len(t) : a < b /\ t[a] = s[i] /\ t[b] = s[j]

BucketsComputed == bpc \in {"loop", "done"}

\* C1: every sale handled so far is in exactly one of the three lists, chosen
\* by the standalone day numbers (1..31) of its dates string alone: this
\* weekend iff one is a day of this weekend and none a day of the next, next
\* weekend iff one is a day of the next weekend and none a day of this one,
\* other in every remaining case; when the function returns every sale of the
\* input has been handled, and each list keeps the input's order.
C1_BucketByDayNumbers ==
    BucketsComputed =>
        /\ bpc = "done" => Processed = Len(sales)
        /\ IsOrderedPart(this_weekend, sales)
        /\ IsOrderedPart(next_weekend, sales)
        /\ IsOrderedPart(other_sales, sales)
        /\ \A i \in 1..Len(sales) :
              LET sale == sales[i]
                  days == StandaloneDays(sale.dates)
                  in_this == days \cap Range(this_weekend_days) # {}
                  in_next == days \cap Range(next_weekend_days) # {}
                  n_this == Count(this_weekend, sale)
                  n_next == Count(next_weekend, sale)
                  n_other == Count(other_sales, sale)
              IN  IF i <= Processed
                  THEN /\ n_this + n_next + n_other = 1
                       /\ n_this = 1 <=> (in_this /\ ~in_next)
                       /\ n_next = 1 <=> (in_next /\ ~in_this)
                       /\ n_other = 1 <=> (in_this <=> in_next)
                  ELSE n_this + n_next + n_other = 0

\* A sale with a day of each weekend went to other after a sale of this
\* weekend, and the function returned.
C1_Witness ==
    /\ bpc = "done"
    /\ Len(this_weekend) = 1
    /\ Len(other_sales) = 1
    /\ this_weekend[1].link < other_sales[1].link
    /\ StandaloneDays(other_sales[1].dates) \cap Range(this_weekend_days) # {}
    /\ StandaloneDays(other_sales[1].dates) \cap Range(next_weekend_days) # {}

DayOfMonth(ordinal, mlen) == IF ordinal > mlen THEN ordinal - mlen ELSE ordinal

\* C8: the offset is in 0..6 and is (3 - weekday) mod 7; this Thursday is a
\* Thursday on or after the current date, the next one is 7 days later, and
\* each list of days holds the days of the month of the four dates from its
\* Thursday on.
C8_ThursdayOffset ==
    /\ bpc # "weekday" =>
          /\ days_to_thursday \in 0..6
          /\ days_to_thursday = (3 - now.wd) % 7
    /\ BucketsComputed =>
          /\ this_thursday.wd = 3
          /\ Ordinal(this_thursday) = Ordinal(now) + days_to_thursday
          /\ Ordinal(this_thursday) >= Ordinal(now)
          /\ next_thursday.wd = 3
          /\ Ordinal(next_thursday) = Ordinal(this_thursday) + 7
          /\ this_weekend_days =
                [i \in 1..4 |-> DayOfMonth(Ordinal(this_thursday) + i - 1, now.mlen)]
          /\ next_weekend_days =
                [i \in 1..4 |-> DayOfMonth(Ordinal(next_thursday) + i - 1, now.mlen)]

\* On a Saturday at the end of a month: the Thursday is in the next month.
C8_Witness ==
    /\ bpc = "done"
    /\ now.wd = 5
    /\ days_to_thursday = 5
    /\ this_thursday.mon = 1

\* C10: the days of this weekend and the days of the next weekend have no day
\* of the month in common, so a sale that is in other with a day of each
\* holds at least two different day numbers.
C10_WindowsDisjoint ==
    BucketsComputed =>
        /\ Range(this_weekend_days) \cap Range(next_weekend_days) = {}
        /\ \A i \in 1..Len(other_sales) :
              LET days == StandaloneDays(other_sales[i].dates)
              IN  (/\ days \cap Range(this_weekend_days) # {}
                   /\ days \cap Range(next_weekend_days) # {})
                  => Cardinality(days) >= 2

\* This weekend runs over the end of a 28-day month and a sale with a day of
\* each weekend is in other.
C10_Witness ==
    /\ bpc = "done"
    /\ now.mlen = 28
    /\ this_thursday.mon = 0
    /\ AddDays(this_thursday, 3).mon = 1
    /\ Len(other_sales) = 1
    /\ StandaloneDays(other_sales[1].dates) \cap Range(this_weekend_days) # {}
    /\ StandaloneDays(other_sales[1].dates) \cap Range(next_weekend_days) # {}

(***************************************************************************)
(* find_sale_container(link).                                              *)
(*                                                                         *)
(* ancestors[i] is the text of the i-th ancestor of the link (1 = its      *)
(* parent, the last one is the document, which has no parent); container   *)
(* is the number of the ancestor the variable points at, 0 for the link.   *)
(* get_text() of an element contains the text of its descendants, so the   *)
(* length and the mentions never decrease up the tree.                     *)
(***************************************************************************)
HopLimit == 5
GoodLength == 100

\* The texts of d ancestors: long from ancestor a on, mentioning 'Austin'
\* from b on and 'TX' from c on.
AncestorTexts(d, a, b, c) ==
    [i \in 1..d |-> [len |-> IF i >= a THEN GoodLength + 1 ELSE GoodLength,
                     austin |-> i >= b,
                     tx |-> i >= c]]

\* A slip: the mention of the city or the state is not asked for.
GoodContent_LengthOnly(text_content) == text_content.len > GoodLength

\* Line 120.
GoodContent(text_content) ==
    text_content.len > GoodLength /\ (text_content.austin \/ text_content.tx)

\* container.parent is an element.
HasParent(c) == c < Len(ancestors)

InitContainer ==
    /\ \E d \in 1..MaxDepth :
          \E a, b, c \in 1..(d + 1) : ancestors = AncestorTexts(d, a, b, c)
    /\ container = 0
    /\ hops = 0
    /\ cpc = "loop"
    /\ BucketIdle /\ ExtractIdle /\ TitleIdle /\ FormatIdle /\ RunIdle

\* Lines 116-121: one step up, to a container with good content: break.
AscendAndStop ==
    /\ cpc = "loop"
    /\ hops < HopLimit
    /\ HasParent(container)
    /\ GoodContent(ancestors[container + 1])
    /\ container' = container + 1
    /\ cpc' = "done"
    /\ UNCHANGED <<ancestors, hops>>
    /\ UNCHANGED notContainerVars

\* Lines 116-120: one step up, the loop goes on.
Ascend ==
    /\ cpc = "loop"
    /\ hops < HopLimit
    /\ HasParent(container)
    /\ ~GoodContent(ancestors[container + 1])
    /\ container' = container + 1
    /\ hops' = hops + 1
    /\ UNCHANGED <<ancestors, cpc>>
    /\ UNCHANGED notContainerVars

\* Line 116: no parent, the pass does nothing.
StayAtRoot ==
    /\ cpc = "loop"
    /\ hops < HopLimit
    /\ ~HasParent(container)
    /\ hops' = hops + 1
    /\ UNCHANGED <<ancestors, container, cpc>>
    /\ UNCHANGED notContainerVars

\* Line 123, after the last pass.
ReturnContainer ==
    /\ cpc = "loop"
    /\ hops = HopLimit
    /\ cpc' = "done"
    /\ UNCHANGED <<ancestors, container, hops>>
    /\ UNCHANGED notContainerVars

ContainerNext == AscendAndStop \/ Ascend \/ StayAtRoot \/ ReturnContainer

SpecContainer == InitContainer /\ [][ContainerNext]_vars

(***************************************************************************)
(* Properties of find_sale_container.                                      *)
(***************************************************************************)
\* The ancestors within 5 hops whose text is longer than 100 characters and
\* mentions 'Austin' or 'TX'.
Reach == Min(5, Len(ancestors))

Qualifying ==
    {i \in 1..Reach :
        ancestors[i].len > 100 /\ (ancestors[i].austin \/ ancestors[i].tx)}

FirstOf(S) == CHOOSE i \in S : \A j \in S : i <= j

\* C9 as stated: the first qualifying ancestor within 5 hops, else the link.
C9_ElseTheLink ==
    cpc = "done" =>
        container = IF Qualifying # {} THEN FirstOf(Qualifying) ELSE 0

\* C9, amended: the first qualifying ancestor within 5 hops; when there is
\* none, the highest ancestor reached: the 5th, or the document when the link
\* has fewer than 5 ancestors.
C9_ElseTheLastReached ==
    cpc = "done" =>
        /\ container <= 5
        /\ container = IF Qualifying # {} THEN FirstOf(Qualifying) ELSE Reach

\* Six ancestors, none of the first five qualifies: the fifth is returned.
C9_Witness ==
    /\ cpc = "done"
    /\ Len(ancestors) > 5
    /\ Qualifying = {}
    /\ container = 5

(***************************************************************************)
(* extract_sale_title_improved(container, link), clean_text(text), and the *)
(* titles that extract_from_html_text builds.                              *)
(*                                                                         *)
(* A text is [len, kind, squeeze]: its length (stripped, as the code       *)
(* measures it), how it starts or what it is made of, and the number of    *)
(* characters clean_text takes out of it (runs of whitespace, entities).   *)
(* The texts of the container are drawn as the function reads them.        *)
(***************************************************************************)
HeadingTags == 6
HeadingMin == 5
HeadingMax == 150
AttrMin == 5
ShortMin == 10
ShortMax == 100

Kinds == {"plain", "http", "HTTP", "digits", "austin, tx"}

\* The least length of a text of each kind.
KindLen(kind) ==
    CASE kind = "http" -> 4 [] kind = "HTTP" -> 4 [] kind = "austin, tx" -> 10
      [] kind = "digits" -> 1 [] OTHER -> 0

Texts ==
    {t \in [len : 0..MaxTextLen, kind : Kinds, squeeze : {0, 2}] :
        t.len >= KindLen(t.kind) /\ t.squeeze <= t.len}

\* "Estate Sale"
DefaultTitle == [len |-> 11, kind |-> "Estate Sale", squeeze |-> 0]

\* f"Estate Sale #{sale_id}", for a sale_id of n digits.
NumberedTitle(n) == [len |-> 13 + n, kind |-> "Estate Sale #", squeeze |-> 0]

\* Lines 367-373: whitespace runs become one space, four entities are decoded.
CleanText(text) == [text EXCEPT !.len = text.len - text.squeeze, !.squeeze = 0]

\* A slip: the heading's length has no upper limit.
HeadingOk_NoUpper(t) == HeadingMin < t.len /\ t.kind \notin {"http", "HTTP"}

\* Lines 130-132: a non-empty heading of a fitting length that is no url.
HeadingOk(t) ==
    /\ t.len > 0
    /\ HeadingMin < t.len /\ t.len < HeadingMax
    /\ t.kind \notin {"http", "HTTP"}

\* Lines 136-138: the link has a title attribute, longer than 5 when stripped.
AttrOk(t) == t.len > AttrMin

\* Line 145.
StrongOk(t) == ShortMin < t.len /\ t.len < ShortMax

\* Lines 154-157.
LineOk(t) ==
    /\ ShortMin < t.len /\ t.len < ShortMax
    /\ t.kind # "http"
    /\ t.kind # "digits"
    /\ t.kind # "austin, tx"

InitTitle ==
    /\ tag_idx = 0
    /\ title_source = "none"
    /\ title_raw = [len |-> 0, kind |-> "none", squeeze |-> 0]
    /\ title = title_raw
    /\ tpc \in {"headings", "text"}
    /\ BucketIdle /\ ExtractIdle /\ ContainerIdle /\ FormatIdle /\ RunIdle

ReturnTitle(source, raw, result) ==
    /\ title_source' = source
    /\ title_raw' = raw
    /\ title' = result
    /\ tpc' = "done"
    /\ UNCHANGED tag_idx
    /\ UNCHANGED notTitleVars

\* Lines 128-133: the first heading of the tag fits.
HeadingFits ==
    /\ tpc = "headings"
    /\ tag_idx < HeadingTags
    /\ \E t \in Texts :
          /\ HeadingOk(t)
          /\ ReturnTitle("heading", t, CleanText(t))

\* Lines 128-132: the container has no heading of the tag, or it does not fit.
HeadingSkipped ==
    /\ tpc = "headings"
    /\ tag_idx < HeadingTags
    /\ \E found \in BOOLEAN, t \in Texts : ~(found /\ HeadingOk(t))
    /\ tag_idx' = tag_idx + 1
    /\ UNCHANGED <<title_source, title_raw, title, tpc>>
    /\ UNCHANGED notTitleVars

\* After h6.
HeadingsDone ==
    /\ tpc = "headings"
    /\ tag_idx = HeadingTags
    /\ tpc' = "attr"
    /\ UNCHANGED <<tag_idx, title_source, title_raw, title>>
    /\ UNCHANGED notTitleVars

\* Lines 136-139.
AttrFits ==
    /\ tpc = "attr"
    /\ \E t \in Texts :
          /\ AttrOk(t)
          /\ ReturnTitle("attr", t, CleanText(t))

\* Lines 136-138: no title attribute, or a short one.
AttrSkipped ==
    /\ tpc = "attr"
    /\ \E found \in BOOLEAN, t \in Texts : ~(found /\ AttrOk(t))
    /\ tpc' = "strong"
    /\ UNCHANGED <<tag_idx, title_source, title_raw, title>>
    /\ UNCHANGED notTitleVars

\* Lines 142-146: the first strong or b element whose text fits.
StrongFits ==
    /\ tpc = "strong"
    /\ \E t \in Texts :
          /\ StrongOk(t)
          /\ ReturnTitle("strong", t, CleanText(t))

\* Lines 142-145: none fits.
StrongSkipped ==
    /\ tpc = "strong"
    /\ tpc' = "lines"
    /\ UNCHANGED <<tag_idx, title_source, title_raw, title>>
    /\ UNCHANGED notTitleVars

\* Lines 149-158: the first line that fits.
LineFits ==
    /\ tpc = "lines"
    /\ \E t \in Texts :
          /\ t.len > 0
          /\ LineOk(t)
          /\ ReturnTitle("line", t, CleanText(t))

\* Line 160.
DefaultReturned ==
    /\ tpc = "lines"
    /\ ReturnTitle("default", DefaultTitle, DefaultTitle)

\* Lines 232-236: the title of a sale found in the text.
TextTitle ==
    /\ tpc = "text"
    /\ \E n \in 1..MaxIdLen :
          ReturnTitle("text", NumberedTitle(n), NumberedTitle(n))

TitleNext ==
    \/ HeadingFits \/ HeadingSkipped \/ HeadingsDone \/ AttrFits \/ AttrSkipped
    \/ StrongFits \/ StrongSkipped \/ LineFits \/ DefaultReturned \/ TextTitle

SpecTitle == InitTitle /\ [][TitleNext]_vars

(***************************************************************************)
(* Properties of the titles.                                               *)
(***************************************************************************)
\* C7 as stated: a title is the default "Estate Sale" or a text of a length
\* within 6..149 before clean_text.
C7_AllWithin6To149 ==
    tpc = "done" => (title = DefaultTitle \/ title_raw.len \in 6..149)

\* C7, amended: a title is the default "Estate Sale"; or a heading of a length
\* within 6..149; or a strong or b text or a first line of a length within
\* 11..99; or the link's title attribute, of a stripped length of 6 or more
\* with no upper limit; or, for a sale found in the text, "Estate Sale #" and
\* the digits of the sale id, of length 13 plus the number of digits.  The
\* lengths are those before clean_text, which only shortens.
C7_TitleLengths ==
    tpc = "done" =>
        /\ title_source \in {"default", "heading", "attr", "strong", "line", "text"}
        /\ title_source = "default" => title = DefaultTitle
        /\ title_source = "heading" => title_raw.len \in 6..149
        /\ title_source \in {"strong", "line"} => title_raw.len \in 11..99
        /\ title_source = "attr" => title_raw.len >= 6
        /\ title_source = "text" =>
              /\ title_raw.kind = "Estate Sale #"
              /\ title_raw.len >= 14
              /\ title = title_raw
        /\ title.len <= title_raw.len
        /\ title.kind = title_raw.kind

\* A heading of 149 characters that clean_text shortens is the title.
C7_Witness ==
    /\ tpc = "done"
    /\ title_source = "heading"
    /\ title_raw.len = 149
    /\ title.len < 149

(***************************************************************************)
(* create_email_content_improved(organized_sales).                         *)
(*                                                                         *)
(* content is the text built so far, as its lines.  A line is              *)
(* [num, pre, val]: the number it starts with (0 when it has none), its    *)
(* fixed text, and the field of a sale written after it.  A field of a     *)
(* sale is <<name, k>>, the field of sale k.                               *)
(***************************************************************************)
OtherLimit == 15

NoField == <<"", 0>>

Lit(text) == [num |-> 0, pre |-> text, val |-> NoField]

Sale(k) ==
    [title |-> <<"title", k>>, address |-> <<"address", k>>,
     dates |-> <<"dates", k>>, link |-> <<"link", k>>]

\* n sales, numbered from first up or from first + n - 1 down.
SaleList(n, first, down) ==
    [i \in 1..n |-> Sale(IF down THEN first + n - i ELSE first + i - 1)]

ThisHeader == "THIS WEEKEND (Thursday - Sunday)"
NextHeader == "NEXT WEEKEND (Thursday - Sunday)"
OtherHeader == "OTHER UPCOMING SALES"
Farewell == "Happy treasure hunting!"

\* A slip: enumerate without its start value.
SaleLines_FromZero(i, sale) ==
    << [num |-> i - 1, pre |-> ". ", val |-> sale.title],
       [num |-> 0, pre |-> "   Address: ", val |-> sale.address],
       [num |-> 0, pre |-> "   Dates: ", val |-> sale.dates],
       [num |-> 0, pre |-> "   Link: ", val |-> sale.link],
       Lit("") >>

\* Lines 333-336: the four lines of the i-th sale of a section and the empty
\* line after them.
SaleLines(i, sale) ==
    << [num |-> i, pre |-> ". ", val |-> sale.title],
       [num |-> 0, pre |-> "   Address: ", val |-> sale.address],
       [num |-> 0, pre |-> "   Dates: ", val |-> sale.dates],
       [num |-> 0, pre |-> "   Link: ", val |-> sale.link],
       Lit("") >>

\* for i, sale in enumerate(list, 1): ...
RECURSIVE ListLines(_, _)
ListLines(list, i) ==
    IF i > Len(list) THEN <<>>
    ELSE SaleLines(i, list[i]) \o ListLines(list, i + 1)

InitFormat ==
    /\ \E n1 \in 0..MaxThisWeekend, n2 \in 0..MaxNextWeekend, n3 \in 0..MaxOther,
          down \in BOOLEAN :
          organized_sales = [this_weekend |-> SaleList(n1, 1, down),
                             next_weekend |-> SaleList(n2, 101, ~down),
                             other |-> SaleList(n3, 201, down)]
    /\ content = <<>>
    /\ fpc = "title"
    /\ BucketIdle /\ ExtractIdle /\ ContainerIdle /\ TitleIdle /\ RunIdle

Write(lines, next) ==
    /\ content' = content \o lines
    /\ fpc' = next
    /\ UNCHANGED organized_sales
    /\ UNCHANGED notFormatVars

\* Lines 321-323.
WriteTitle ==
    /\ fpc = "title"
    /\ Write(<< Lit("AUSTIN ESTATE SALES - WEEKLY UPDATE"),
                Lit("==================================="),
                Lit("Generated: "),
                Lit("") >>, "this")

\* Lines 326-330.
WriteNoThisWeekend ==
    /\ fpc = "this"
    /\ organized_sales.this_weekend = <<>>
    /\ Write(<< Lit(ThisHeader), Lit("--------------------------------"), Lit(""),
                Lit("No estate sales found for this weekend."), Lit("") >>, "next")

\* Lines 326-336.
WriteThisWeekend ==
    /\ fpc = "this"
    /\ organized_sales.this_weekend # <<>>
    /\ Write(<< Lit(ThisHeader), Lit("--------------------------------"), Lit("") >>
             \o ListLines(organized_sales.this_weekend, 1), "next")

\* Lines 339-343.
WriteNoNextWeekend ==
    /\ fpc = "next"
    /\ organized_sales.next_weekend = <<>>
    /\ Write(<< Lit(NextHeader), Lit("---------------------------------"), Lit(""),
                Lit("No estate sales found for next weekend."), Lit("") >>, "other")

\* Lines 339-349.
WriteNextWeekend ==
    /\ fpc = "next"
    /\ organized_sales.next_weekend # <<>>
    /\ Write(<< Lit(NextHeader), Lit("---------------------------------"), Lit("") >>
             \o ListLines(organized_sales.next_weekend, 1), "other")

\* Line 352: no other sales, no section.
WriteNoOther ==
    /\ fpc = "other"
    /\ organized_sales.other = <<>>
    /\ Write(<<>>, "end")

\* Lines 352-360.
WriteOther ==
    /\ fpc = "other"
    /\ organized_sales.other # <<>>
    /\ Write(<< Lit(OtherHeader), Lit("--------------------"), Lit("") >>
             \o ListLines(Take(organized_sales.other, OtherLimit), 1), "end")

\* Lines 362-365.
WriteEnd ==
    /\ fpc = "end"
    /\ Write(<< Lit(""), Lit(Farewell),
                Lit("- Austin Estate Sales Tracker (Last updated: )") >>, "done")

FormatNext ==
    \/ WriteTitle \/ WriteNoThisWeekend \/ WriteThisWeekend \/ WriteNoNextWeekend
    \/ WriteNextWeekend \/ WriteNoOther \/ WriteOther \/ WriteEnd

SpecFormat == InitFormat /\ [][FormatNext]_vars

(***************************************************************************)
(* Properties of create_email_content_improved: the text read back.        *)
(***************************************************************************)
LinesAt(text) == {p \in 1..Len(content) : content[p] = Lit(text)}

\* The lines of the section under a header: from the header to the next
\* header or the farewell; none when the header is not in the text.
SectionOf(header) ==
    IF LinesAt(header) = {} THEN <<>>
    ELSE LET from == CHOOSE p \in LinesAt(header) : TRUE
             stops == {p \in (from + 1)..Len(content) :
                          content[p].pre \in {ThisHeader, NextHeader, OtherHeader,
                                              Farewell}}
             to == CHOOSE p \in stops : \A q \in stops : p <= q
         IN  SubSeq(content, from + 1, to - 1)

IsTitleLine(line) == line.pre = ". "
IsAddressLine(line) == line.pre = "   Address: "
IsDatesLine(line) == line.pre = "   Dates: "
IsLinkLine(line) == line.pre = "   Link: "

\* The section under the header lists exactly the sales of the list, once
\* each, in the list's order, numbered from 1.
Lists(header, list) ==
    LET section == SectionOf(header)
        titles == SelectSeq(section, IsTitleLine)
        addresses == SelectSeq(section, IsAddressLine)
        dates == SelectSeq(section, IsDatesLine)
        links == SelectSeq(section, IsLinkLine)
    IN  /\ Cardinality(LinesAt(header)) <= 1
        /\ Len(titles) = Len(list)
        /\ Len(addresses) = Len(list)
        /\ Len(dates) = Len(list)
        /\ Len(links) = Len(list)
        /\ \A i \in 1..Len(list) :
              /\ titles[i].num = i
              /\ titles[i].val = list[i].title
              /\ addresses[i].val = list[i].address
              /\ dates[i].val = list[i].dates
              /\ links[i].val = list[i].link

\* C4 as stated: each of the three lists is listed whole in its section.
C4_AllListed ==
    fpc = "done" =>
        /\ Lists(ThisHeader, organized_sales.this_weekend)
        /\ Lists(NextHeader, organized_sales.next_weekend)
        /\ Lists(OtherHeader, organized_sales.other)

\* C4, amended: this_weekend and next_weekend are listed whole in their
\* sections, each sale once, in order, numbered from 1; of other, the first
\* 15 sales are listed so and the later ones are left out.
C4_OtherUpTo15 ==
    fpc = "done" =>
        /\ Lists(ThisHeader, organized_sales.this_weekend)
        /\ Lists(NextHeader, organized_sales.next_weekend)
        /\ Lists(OtherHeader, SubSeq(organized_sales.other, 1,
                                     Min(15, Len(organized_sales.other))))

\* Two sales this weekend, two next weekend and sixteen others were written.
C4_Witness ==
    /\ fpc = "done"
    /\ Len(organized_sales.this_weekend) = 2
    /\ Len(organized_sales.next_weekend) = 2
    /\ Len(organized_sales.other) = 16
    /\ Len(SelectSeq(SectionOf(OtherHeader), IsTitleLine)) = 15

(***************************************************************************)
(* scrape_estate_sales(), send_email(content), send_error_email(message).  *)
(*                                                                         *)
(* environ gives each of the three variables as "unset" (get returns       *)
(* None), "empty" (the empty string) or "set".  faults are the steps that  *)
(* raise when they are run: the four steps of the pipeline and the five    *)
(* calls on the SMTP server.  exc is the last exception raised, by the     *)
(* step that raised it; raised_in is the step whose exception reached the  *)
(* handler of scrape_estate_sales.                                         *)
(***************************************************************************)
EnvNames == {"GMAIL_USER", "GMAIL_APP_PASSWORD", "RECIPIENT_EMAIL"}
EnvValues == {"unset", "empty", "set"}

PipelineSteps == {"fetch", "extract", "bucket", "format"}
SmtpSteps == <<"SMTP", "starttls", "login", "sendmail", "quit">>

\* A slip: any() in the place of all().
CredentialsFound_Any(env) == \E name \in EnvNames : env[name] = "set"

\* Lines 381 and 417: all([...]) of the three values; None and the empty
\* string are false.
CredentialsFound(env) == \A name \in EnvNames : env[name] = "set"

\* A slip: send_email has no except clause.
SendEmailCatches_Not == FALSE

\* Line 407: except Exception.
SendEmailCatches == TRUE

\* Line 434: except Exception.
ErrorEmailCatches == TRUE

InitRun ==
    /\ environ \in [EnvNames -> EnvValues]
    /\ faults \in SUBSET (PipelineSteps \cup Range(SmtpSteps))
    /\ raised_in = "none"
    /\ exc = "none"
    /\ notifier_calls = <<>>
    /\ smtp_connects = 0
    /\ rpc = <<"run", "fetch">>
    /\ BucketIdle /\ ExtractIdle /\ ContainerIdle /\ TitleIdle /\ FormatIdle

\* A step inside the try of scrape_estate_sales: it raises, and the handler
\* of line 52 is next, or it does not.
PipelineStep(step, next) ==
    /\ rpc = <<"run", step>>
    /\ IF step \in faults
       THEN /\ exc' = step
            /\ raised_in' = step
            /\ rpc' = <<"run", "except">>
       ELSE /\ rpc' = next
            /\ UNCHANGED <<exc, raised_in>>
    /\ UNCHANGED <<environ, faults, notifier_calls, smtp_connects>>
    /\ UNCHANGED notRunVars

\* Lines 25-26.
Fetch ==
    /\ rpc[1] = "run"
    /\ PipelineStep("fetch", <<"run", "extract">>)

\* Lines 31-39.
Extract ==
    /\ rpc[1] = "run"
    /\ PipelineStep("extract", <<"run", "bucket">>)

\* Line 42.
Organize ==
    /\ rpc[1] = "run"
    /\ PipelineStep("bucket", <<"run", "format">>)

\* Line 45.
CreateContent ==
    /\ rpc[1] = "run"
    /\ PipelineStep("format", <<"run", "send_email">>)

\* Line 48: send_email is called.
CallSendEmail ==
    /\ rpc = <<"run", "send_email">>
    /\ notifier_calls' = Append(notifier_calls, "send_email")
    /\ rpc' = <<"send_email", "credentials">>
    /\ UNCHANGED <<environ, faults, raised_in, exc, smtp_connects>>
    /\ UNCHANGED notRunVars

\* Lines 377-383: a credential is missing, send_email returns.
SendEmailNoCredentials ==
    /\ rpc = <<"send_email", "credentials">>
    /\ ~CredentialsFound(environ)
    /\ rpc' = <<"run", "sent">>
    /\ UNCHANGED <<environ, faults, raised_in, exc, notifier_calls, smtp_connects>>
    /\ UNCHANGED notRunVars

\* Lines 381-395: the message is built.
SendEmailCompose ==
    /\ rpc = <<"send_email", "credentials">>
    /\ CredentialsFound(environ)
    /\ rpc' = <<"send_email", SmtpSteps[1]>>
    /\ UNCHANGED <<environ, faults, raised_in, exc, notifier_calls, smtp_connects>>
    /\ UNCHANGED notRunVars

\* Where an exception raised in the try of send_email goes: to its except
\* clause, which prints and returns, or out to the caller's handler.
SendEmailRaises ==
    IF SendEmailCatches THEN <<"run", "sent">> ELSE <<"run", "except">>

\* Where an exception raised in the try of send_error_email goes.
ErrorEmailRaises ==
    IF ErrorEmailCatches THEN <<"run", "done">> ELSE <<"run", "crashed">>

\* One call on the SMTP server by the notifier fn: the connection is counted
\* when it is attempted.
SmtpCall(fn, raises, after) ==
    \E k \in 1..Len(SmtpSteps) :
        /\ rpc = <<fn, SmtpSteps[k]>>
        /\ smtp_connects' = IF k = 1 THEN smtp_connects + 1 ELSE smtp_connects
        /\ IF SmtpSteps[k] \in faults
           THEN /\ exc' = SmtpSteps[k]
                /\ rpc' = raises
           ELSE /\ rpc' = IF k < Len(SmtpSteps) THEN <<fn, SmtpSteps[k + 1]>> ELSE after
                /\ UNCHANGED exc
        /\ UNCHANGED <<environ, faults, raised_in, notifier_calls>>
        /\ UNCHANGED notRunVars

\* Lines 397-408.
SendEmailSmtp ==
    /\ rpc[1] = "send_email"
    /\ SmtpCall("send_email", SendEmailRaises, <<"run", "sent">>)

\* Line 50: back in scrape_estate_sales, the run ends.
AfterSendEmail ==
    /\ rpc = <<"run", "sent">>
    /\ rpc' = <<"run", "done">>
    /\ UNCHANGED <<environ, faults, raised_in, exc, notifier_calls, smtp_connects>>
    /\ UNCHANGED notRunVars

\* Lines 52-54: the handler calls send_error_email.
HandleError ==
    /\ rpc = <<"run", "except">>
    /\ notifier_calls' = Append(notifier_calls, "send_error_email")
    /\ rpc' = <<"send_error_email", "credentials">>
    /\ UNCHANGED <<environ, faults, raised_in, exc, smtp_connects>>
    /\ UNCHANGED notRunVars

\* Lines 413-418: a credential is missing, send_error_email returns and the
\* run ends.
ErrorEmailNoCredentials ==
    /\ rpc = <<"send_error_email", "credentials">>
    /\ ~CredentialsFound(environ)
    /\ rpc' = <<"run", "done">>
    /\ UNCHANGED <<environ, faults, raised_in, exc, notifier_calls, smtp_connects>>
    /\ UNCHANGED notRunVars

\* Lines 417-426.
ErrorEmailCompose ==
    /\ rpc = <<"send_error_email", "credentials">>
    /\ CredentialsFound(environ)
    /\ rpc' = <<"send_error_email", SmtpSteps[1]>>
    /\ UNCHANGED <<environ, faults, raised_in, exc, notifier_calls, smtp_connects>>
    /\ UNCHANGED notRunVars

\* Lines 428-435.
ErrorEmailSmtp ==
    /\ rpc[1] = "send_error_email"
    /\ SmtpCall("send_error_email", ErrorEmailRaises, <<"run", "done">>)

RunNext ==
    \/ Fetch \/ Extract \/ Organize \/ CreateContent
    \/ CallSendEmail \/ SendEmailNoCredentials \/ SendEmailCompose \/ SendEmailSmtp
    \/ AfterSendEmail
    \/ HandleError \/ ErrorEmailNoCredentials \/ ErrorEmailCompose \/ ErrorEmailSmtp

SpecRun == InitRun /\ [][RunNext]_vars

(***************************************************************************)
(* Properties of the run and of the two notifiers.                         *)
(***************************************************************************)
SomeUnset == \E name \in EnvNames : environ[name] = "unset"

InNotifier == rpc[1] \in {"send_email", "send_error_email"}

\* C5: with one of the three variables unset, a notifier that is called makes
\* no SMTP connection and raises nothing: no connection is ever attempted, no
\* call on the SMTP server raises, the notifier goes no further than reading
\* the credentials, and the run ends with the one notifier called.
C5_NoCredentialsNoSmtp ==
    SomeUnset =>
        /\ smtp_connects = 0
        /\ exc \notin Range(SmtpSteps)
        /\ rpc # <<"run", "crashed">>
        /\ InNotifier => rpc[2] = "credentials"
        /\ rpc = <<"run", "done">> => Len(notifier_calls) = 1

\* The run ended through send_error_email with only the password unset.
C5_Witness ==
    /\ rpc = <<"run", "done">>
    /\ environ = [GMAIL_USER |-> "set", GMAIL_APP_PASSWORD |-> "unset",
                  RECIPIENT_EMAIL |-> "set"]
    /\ notifier_calls = <<"send_error_email">>
    /\ smtp_connects = 0

\* C6: no exception leaves the run and a run that has ended has called
\* exactly one notifier: send_error_email if and only if the fetch, extract,
\* bucket or format step raised, and then send_email was never called;
\* send_email otherwise, and no failure of its calls on the SMTP server ever
\* leads to send_error_email.
C6_OneNotifier ==
    /\ rpc # <<"run", "crashed">>
    /\ Len(notifier_calls) <= 1
    /\ raised_in \in PipelineSteps \cup {"none"}
    /\ raised_in # "none" => (raised_in \in faults /\ rpc[2] # "send_email")
    /\ (notifier_calls = <<"send_email">> /\ exc # "none") => exc \in Range(SmtpSteps)
    /\ rpc = <<"run", "done">> =>
          /\ Len(notifier_calls) = 1
          /\ notifier_calls = <<"send_error_email">> <=> raised_in # "none"
          /\ notifier_calls = <<"send_error_email">> <=> faults \cap PipelineSteps # {}
          /\ notifier_calls = <<"send_email">> <=> faults \cap PipelineSteps = {}

\* The normal report failed at login, the failure was swallowed and the run
\* ended without send_error_email.
C6_Witness ==
    /\ rpc = <<"run", "done">>
    /\ notifier_calls = <<"send_email">>
    /\ exc = "login"
    /\ smtp_connects = 1

====
